---- MODULE Spec2Model ----
(***************************************************************************)
(* Greedy job-to-carrier assignment (assign_jobs) of the fleet-optimization *)
(* repository, and the Lambda handler that drives it.                       *)
(*                                                                          *)
(* Units: p90_time_min is in minutes, carrier_hours_worked and max_hours    *)
(* are in hours.  The code's test  hours + p90/60.0 <= max_hours  is        *)
(* evaluated with both sides multiplied by 60, which keeps it in integers.  *)
(***************************************************************************)
EXTENDS Integers, Sequences, FiniteSets, TLC

\* ------------------------------------------------------------------------
\* Bounds and input universes
\* ------------------------------------------------------------------------
MaxRows == 3

DefaultMaxHours == 9

Carriers == {"C1", "C2"}

JobIds == {0, 1}

MaxHoursValues == {8, DefaultMaxHours}

\* <<p90_time_min, carrier_hours_worked>> of the numeric input records:
\* over the 9-hour cap but fast, exactly at the 9-hour cap, far under any cap.
Profiles == {<<30, 9>>, <<60, 8>>, <<90, 0>>}

\* predicted_time_sec values of the Lambda's CSV: 30 min, 60 min, 10 hours.
SecValues == {1800, 3600, 36000}

Impls == {"ml_model/optimizer.py", "Optimizer.py", "ml_model/utils/features.py"}

None == "None"

\* A record whose p90_time_min is not a number has numeric = FALSE.
Rows ==
    {[carrier_id |-> c, job_id |-> j, p90_time_min |-> p[1],
      carrier_hours_worked |-> p[2], numeric |-> TRUE] :
        c \in Carriers, j \in JobIds, p \in Profiles}
    \cup
    {[carrier_id |-> c, job_id |-> j, p90_time_min |-> 0,
      carrier_hours_worked |-> 0, numeric |-> FALSE] :
        c \in Carriers, j \in JobIds}

Tables == UNION {[1..n -> Rows] : n \in 0..MaxRows}

CsvRows ==
    {[carrier_id |-> c, predicted_time_sec |-> s, numeric |-> TRUE] :
        c \in Carriers, s \in SecValues}
    \cup
    {[carrier_id |-> c, predicted_time_sec |-> 0, numeric |-> FALSE] :
        c \in Carriers}

CsvTables == UNION {[1..n -> CsvRows] : n \in 0..MaxRows}

\* ------------------------------------------------------------------------
\* State
\* ------------------------------------------------------------------------
VARIABLES
    caller,              \* "direct": assign_jobs(df, max_hours); "lambda": lambda_handler
    impl,                \* which of the three assign_jobs definitions runs
    csv,                 \* content of the latest predictions CSV (lambda only)
    df,                  \* the table handed to assign_jobs
    max_hours,
    pc,                  \* position in assign_jobs
    available_carriers,
    groups,              \* job ids the groupby iterator has still to yield
    assignments,         \* the local list built by assign_jobs
    result,              \* the list the caller of assign_jobs receives
    stage,               \* position in lambda_handler
    response,            \* what lambda_handler returned
    input_exists,        \* the predictions CSV is in the bucket
    output_written       \* the optimized CSV is in the bucket

engine_vars == <<pc, available_carriers, groups, assignments, result>>

input_vars == <<caller, impl, csv, df, max_hours>>

handler_vars == <<stage, response, input_exists, output_written>>

vars == <<caller, impl, csv, df, max_hours, pc, available_carriers, groups,
          assignments, result, stage, response, input_exists, output_written>>

\* ------------------------------------------------------------------------
\* assign_jobs: the pieces of one run
\* ------------------------------------------------------------------------

\* set(df["carrier_id"].unique())
InitialPool(table) == {table[i].carrier_id : i \in DOMAIN table}

DistinctJobIds(table) == {table[i].job_id : i \in DOMAIN table}

RECURSIVE Ascending(_)
Ascending(S) ==
    IF S = {} THEN <<>>
    ELSE LET m == CHOOSE x \in S : \A y \in S : x <= y
         IN  <<m>> \o Ascending(S \ {m})

\* Mutant of GroupKeys: one key per row, as if the loop ran over the rows.
GroupKeysPerRow(table) == [i \in DOMAIN table |-> table[i].job_id]

RECURSIVE FirstAppearance(_)
FirstAppearance(ids) ==
    IF ids = <<>> THEN <<>>
    ELSE <<Head(ids)>> \o
         FirstAppearance(SelectSeq(Tail(ids), LAMBDA x : x # Head(ids)))

\* Mutant of GroupKeys: groupby(..., sort=False), keys in order of first
\* appearance.
GroupKeysUnsorted(table) == FirstAppearance(GroupKeysPerRow(table))

\* df.groupby("job_id"): pandas yields the groups in sorted key order
\* (sort=True is the default).
GroupKeys(table) == Ascending(DistinctJobIds(table))

\* job_group[job_group["carrier_id"].isin(available_carriers)], as the set
\* of index labels (row positions) the filtered group keeps.
JobGroup(table, job_id, pool) ==
    {i \in DOMAIN table :
        table[i].job_id = job_id /\ table[i].carrier_id \in pool}

\* Mutant of CanWork: the hours already worked are left out of the sum.
CanWorkIgnoringHours(row, mh) == row.p90_time_min <= mh * 60

\* carrier_hours_worked + p90_time_min / 60.0 <= max_hours
CanWork(row, mh) ==
    row.carrier_hours_worked * 60 + row.p90_time_min <= mh * 60

\* valid = job_group[job_group["can_work"]]
Valid(table, group, mh) == {i \in group : CanWork(table[i], mh)}

\* The arithmetic on the group raises TypeError when one of its records
\* holds a non-numeric value.
GroupRaises(table, group) == \E i \in group : ~table[i].numeric

\* Mutant of IdxMin: the first valid row, whatever its time.
IdxFirst(table, valid) == CHOOSE i \in valid : \A k \in valid : i <= k

\* Mutant of IdxMin: among equal minima the last occurrence wins.
IdxMinLast(table, valid) ==
    CHOOSE i \in valid :
        \A k \in valid :
            \/ table[i].p90_time_min < table[k].p90_time_min
            \/ table[i].p90_time_min = table[k].p90_time_min /\ i >= k

\* valid["p90_time_min"].idxmin(): label of the first occurrence of the
\* minimum.
IdxMin(table, valid) ==
    CHOOSE i \in valid :
        \A k \in valid :
            \/ table[i].p90_time_min < table[k].p90_time_min
            \/ table[i].p90_time_min = table[k].p90_time_min /\ i <= k

\* The dictionary appended for a job without a valid candidate.
UnassignedEntry(job_id) ==
    [job_id |-> job_id, carrier_id |-> None,
     reason |-> "No eligible carriers under 9-hour limit"]

\* The dictionary appended for the selected row; only ml_model/optimizer.py
\* records carrier_hours_before.
AssignedEntry(im, best_row) ==
    IF im = "ml_model/optimizer.py"
    THEN [job_id |-> best_row.job_id, carrier_id |-> best_row.carrier_id,
          p90_time_min |-> best_row.p90_time_min,
          carrier_hours_before |-> best_row.carrier_hours_worked]
    ELSE [job_id |-> best_row.job_id, carrier_id |-> best_row.carrier_id,
          p90_time_min |-> best_row.p90_time_min]

\* Mutant of RemoveCarrier: the selected carrier stays in the pool.
RemoveNothing(pool, carrier_id) == pool

\* Mutant of RemoveCarrier: the pool is emptied.
RemoveAll(pool, carrier_id) == {}

\* available_carriers.remove(best_row["carrier_id"])
RemoveCarrier(pool, carrier_id) == pool \ {carrier_id}

\* ------------------------------------------------------------------------
\* assign_jobs: actions
\* ------------------------------------------------------------------------

\* assignments = []; available_carriers = set(...); the groupby is set up.
AssignJobsEnter ==
    /\ pc = "start"
    /\ assignments' = <<>>
    /\ available_carriers' = InitialPool(df)
    /\ groups' = GroupKeys(df)
    /\ pc' = "loop"
    /\ UNCHANGED <<result, input_vars, handler_vars>>

\* One iteration of the loop that ends in  continue  (no valid candidate).
JobUnassigned ==
    /\ pc = "loop"
    /\ groups # <<>>
    /\ LET job_id == Head(groups)
           job_group == JobGroup(df, job_id, available_carriers)
           valid == Valid(df, job_group, max_hours)
       IN  /\ ~GroupRaises(df, job_group)
           /\ valid = {}
           /\ assignments' = Append(assignments, UnassignedEntry(job_id))
           /\ groups' = Tail(groups)
           /\ UNCHANGED <<pc, available_carriers, result>>
    /\ UNCHANGED <<input_vars, handler_vars>>

\* One iteration of the loop that selects a carrier.
JobAssigned ==
    /\ pc = "loop"
    /\ groups # <<>>
    /\ LET job_id == Head(groups)
           job_group == JobGroup(df, job_id, available_carriers)
           valid == Valid(df, job_group, max_hours)
       IN  /\ ~GroupRaises(df, job_group)
           /\ valid # {}
           /\ LET best_row == df[IdxMin(df, valid)]
              IN  /\ assignments' =
                        Append(assignments, AssignedEntry(impl, best_row))
                  /\ available_carriers' =
                        RemoveCarrier(available_carriers, best_row.carrier_id)
           /\ groups' = Tail(groups)
           /\ UNCHANGED <<pc, result>>
    /\ UNCHANGED <<input_vars, handler_vars>>

\* Mutant of JobRaises: the exception is swallowed and the list built so
\* far is returned.
JobRaisesSwallowed ==
    /\ pc = "loop"
    /\ groups # <<>>
    /\ GroupRaises(df, JobGroup(df, Head(groups), available_carriers))
    /\ result' = assignments
    /\ pc' = "returned"
    /\ UNCHANGED <<available_carriers, groups, assignments>>
    /\ UNCHANGED <<input_vars, handler_vars>>

\* One iteration of the loop whose arithmetic raises: the exception leaves
\* assign_jobs, the local list is dropped and the caller receives nothing.
JobRaises ==
    /\ pc = "loop"
    /\ groups # <<>>
    /\ GroupRaises(df, JobGroup(df, Head(groups), available_carriers))
    /\ pc' = "raised"
    /\ UNCHANGED <<available_carriers, groups, assignments, result>>
    /\ UNCHANGED <<input_vars, handler_vars>>

\* return assignments
AssignJobsReturn ==
    /\ pc = "loop"
    /\ groups = <<>>
    /\ result' = assignments
    /\ pc' = "returned"
    /\ UNCHANGED <<available_carriers, groups, assignments>>
    /\ UNCHANGED <<input_vars, handler_vars>>

\* ------------------------------------------------------------------------
\* lambda_handler
\* ------------------------------------------------------------------------

NoResponse == [statusCode |-> 0]

ErrorResponse(message) == [statusCode |-> 500, error |-> message]

\* The 200 response: the assignments and the outcome of the delete.
OkResponse(rows, deleted) ==
    [statusCode |-> 200, assignments |-> rows, deleted_input_file |-> deleted]

\* Steps 2 and 3 of the handler: job_id = index // carriers_per_job,
\* p90_time_min = predicted_time_sec / 60.0, carrier_hours_worked = 0.0.
Prepared(raw) ==
    LET carriers_per_job == Cardinality(InitialPool(raw))
    IN  [i \in DOMAIN raw |->
            [carrier_id |-> raw[i].carrier_id,
             job_id |-> (i - 1) \div carriers_per_job,
             p90_time_min |-> raw[i].predicted_time_sec \div 60,
             carrier_hours_worked |-> 0,
             numeric |-> TRUE]]

\* Mutant of LoadPredictions: the input is deleted as soon as it was read.
LoadPredictionsAndDelete ==
    /\ stage = "load"
    /\ input_exists
    /\ input_exists' = FALSE
    /\ stage' = "prepare"
    /\ UNCHANGED <<response, output_written>>
    /\ UNCHANGED <<input_vars, engine_vars>>

\* get_latest_csv, get_object and read_csv succeed.
LoadPredictions ==
    /\ stage = "load"
    /\ input_exists
    /\ stage' = "prepare"
    /\ UNCHANGED <<response, input_exists, output_written>>
    /\ UNCHANGED <<input_vars, engine_vars>>

\* Any of them raises (no CSV under predictions/, or an S3 error).
LoadFails ==
    /\ stage = "load"
    /\ response' = ErrorResponse("Failed loading predictions")
    /\ stage' = "responded"
    /\ UNCHANGED <<input_exists, output_written>>
    /\ UNCHANGED <<input_vars, engine_vars>>

\* Steps 2 and 3 on a CSV whose predicted_time_sec values are numbers; the
\* handler then calls assign_jobs(df) with the default max_hours.
PrepareTable ==
    /\ stage = "prepare"
    /\ \A i \in DOMAIN csv : csv[i].numeric
    /\ df' = Prepared(csv)
    /\ stage' = "optimize"
    /\ pc' = "start"
    /\ UNCHANGED <<caller, impl, csv, max_hours>>
    /\ UNCHANGED <<available_carriers, groups, assignments, result>>
    /\ UNCHANGED <<response, input_exists, output_written>>

\* Step 3 on a non-numeric predicted_time_sec: the division raises outside
\* every try block, the handler ends without a response.
PrepareRaises ==
    /\ stage = "prepare"
    /\ \E i \in DOMAIN csv : ~csv[i].numeric
    /\ stage' = "crashed"
    /\ UNCHANGED <<response, input_exists, output_written>>
    /\ UNCHANGED <<input_vars, engine_vars>>

\* except Exception around assign_jobs(df): whatever the call raises, at
\* whatever point of the loop, becomes the "Optimization failed" response.
OptimizationFails ==
    /\ stage = "optimize"
    /\ pc \in {"loop", "raised"}
    /\ pc' = "raised"
    /\ response' = ErrorResponse("Optimization failed")
    /\ stage' = "responded"
    /\ UNCHANGED <<available_carriers, groups, assignments, result>>
    /\ UNCHANGED <<input_exists, output_written>>
    /\ UNCHANGED input_vars

\* put_object succeeds.
SaveOutput ==
    /\ stage = "optimize"
    /\ pc = "returned"
    /\ output_written' = TRUE
    /\ stage' = "delete"
    /\ UNCHANGED <<response, input_exists>>
    /\ UNCHANGED <<input_vars, engine_vars>>

\* Mutant of SaveFails: the failed write is ignored and the handler answers
\* as if the output had been stored.
SaveFailsIgnored ==
    /\ stage = "optimize"
    /\ pc = "returned"
    /\ response' = OkResponse(result, FALSE)
    /\ stage' = "responded"
    /\ UNCHANGED <<input_exists, output_written>>
    /\ UNCHANGED <<input_vars, engine_vars>>

\* put_object raises.
SaveFails ==
    /\ stage = "optimize"
    /\ pc = "returned"
    /\ response' = ErrorResponse("Failed writing optimized output")
    /\ stage' = "responded"
    /\ UNCHANGED <<input_exists, output_written>>
    /\ UNCHANGED <<input_vars, engine_vars>>

\* delete_object succeeds; the handler returns the 200 response.
DeleteInput ==
    /\ stage = "delete"
    /\ input_exists' = FALSE
    /\ response' = OkResponse(result, TRUE)
    /\ stage' = "responded"
    /\ UNCHANGED output_written
    /\ UNCHANGED <<input_vars, engine_vars>>

\* delete_object raises; the handler still returns the 200 response.
DeleteFails ==
    /\ stage = "delete"
    /\ response' = OkResponse(result, FALSE)
    /\ stage' = "responded"
    /\ UNCHANGED <<input_exists, output_written>>
    /\ UNCHANGED <<input_vars, engine_vars>>

\* ------------------------------------------------------------------------
\* Specification
\* ------------------------------------------------------------------------

\* A direct call assign_jobs(df, max_hours) of any of the three definitions.
InitDirect ==
    /\ caller = "direct"
    /\ impl \in Impls
    /\ csv = <<>>
    /\ df \in Tables
    /\ max_hours \in MaxHoursValues
    /\ pc = "start"
    /\ stage = "none"
    /\ input_exists = FALSE

\* An invocation of lambda_handler; its assign_jobs is the one embedded in
\* ml_model/utils/features.py.
InitLambda ==
    /\ caller = "lambda"
    /\ impl = "ml_model/utils/features.py"
    /\ csv \in CsvTables
    /\ df = <<>>
    /\ max_hours = DefaultMaxHours
    /\ pc = "idle"
    /\ stage = "load"
    /\ input_exists \in BOOLEAN

Init ==
    /\ InitDirect \/ InitLambda
    /\ available_carriers = {}
    /\ groups = <<>>
    /\ assignments = <<>>
    /\ result = <<>>
    /\ response = NoResponse
    /\ output_written = FALSE

Next ==
    \/ AssignJobsEnter
    \/ JobUnassigned
    \/ JobAssigned
    \/ JobRaises
    \/ AssignJobsReturn
    \/ LoadPredictions
    \/ LoadFails
    \/ PrepareTable
    \/ PrepareRaises
    \/ OptimizationFails
    \/ SaveOutput
    \/ SaveFails
    \/ DeleteInput
    \/ DeleteFails

Spec == Init /\ [][Next]_vars

\* ------------------------------------------------------------------------
\* Properties
\* ------------------------------------------------------------------------

IsAssigned(e) == e.carrier_id # None

\* C1: each carrier_id appears in at most one Assigned entry, in the list
\* under construction and in the list returned.
NoDoubleAssignment ==
    \A list \in {assignments, result} :
        \A i, k \in DOMAIN list :
            (IsAssigned(list[i]) /\ list[i].carrier_id = list[k].carrier_id)
                => i = k

\* A returned run in which one carrier was an under-cap candidate of two
\* jobs, in two rows of one of them, and got exactly one of the jobs.
NoDoubleAssignmentWitness ==
    /\ pc = "returned"
    /\ Len(result) = 2
    /\ \E a, b, c \in DOMAIN df :
        /\ a # b /\ b # c /\ a # c
        /\ df[a].carrier_id = df[b].carrier_id
        /\ df[b].carrier_id = df[c].carrier_id
        /\ df[a].job_id = df[b].job_id
        /\ df[a].job_id # df[c].job_id
        /\ \A i \in {a, b, c} :
            /\ df[i].numeric
            /\ df[i].carrier_hours_worked * 60 + df[i].p90_time_min
                   <= max_hours * 60
        /\ \E i \in DOMAIN result : result[i].carrier_id = df[a].carrier_id

JobState(list, job_id) ==
    IF \A i \in DOMAIN list : list[i].job_id # job_id THEN "Pending"
    ELSE IF \E i \in DOMAIN list :
                list[i].job_id = job_id /\ IsAssigned(list[i])
         THEN "Assigned"
         ELSE "Unassigned"

EntriesOf(list, job_id) == {i \in DOMAIN list : list[i].job_id = job_id}

\* C2: the returned list holds exactly one entry per distinct job_id of the
\* input (an empty input gives an empty list); every iteration of the loop
\* takes the job it evaluates from Pending to Assigned or Unassigned, and a
\* job that has left Pending keeps its one entry and its state.
OneResultPerJob ==
    /\ [](pc = "returned" =>
            /\ Len(result) = Cardinality({df[i].job_id : i \in DOMAIN df})
            /\ \A i \in DOMAIN df :
                   Cardinality(EntriesOf(result, df[i].job_id)) = 1
            /\ \A k \in DOMAIN result :
                   \E i \in DOMAIN df : df[i].job_id = result[k].job_id
            /\ (df = <<>> => result = <<>>))
    /\ [][pc = "loop" =>
            /\ \A j \in {df[i].job_id : i \in DOMAIN df} :
                   JobState(assignments, j) # "Pending" =>
                       /\ JobState(assignments', j) = JobState(assignments, j)
                       /\ EntriesOf(assignments', j) = EntriesOf(assignments, j)
            /\ assignments' # assignments =>
                   /\ JobState(assignments, Head(groups)) = "Pending"
                   /\ JobState(assignments', Head(groups)) # "Pending"
                   /\ Len(assignments') = Len(assignments) + 1]_vars

\* A returned run over three rows and two jobs, one job Assigned and the
\* other Unassigned.
OneResultPerJobWitness ==
    /\ pc = "returned"
    /\ Len(df) = 3
    /\ Len(result) = 2
    /\ JobState(result, 0) = "Assigned"
    /\ JobState(result, 1) = "Unassigned"

\* C3: every Assigned entry is the entry of an input record of that job and
\* carrier whose own carrier_hours_worked plus p90_time_min / 60 is at most
\* max_hours.
HourCapRespected ==
    \A list \in {assignments, result} :
        \A k \in DOMAIN list :
            IsAssigned(list[k]) =>
                \E i \in DOMAIN df :
                    /\ df[i].numeric
                    /\ df[i].job_id = list[k].job_id
                    /\ df[i].carrier_id = list[k].carrier_id
                    /\ df[i].p90_time_min = list[k].p90_time_min
                    /\ df[i].carrier_hours_worked * 60 + df[i].p90_time_min
                           <= max_hours * 60

\* A returned run that assigned a record lying exactly at the cap.
HourCapRespectedWitness ==
    /\ pc = "returned"
    /\ \E k \in DOMAIN result :
        /\ IsAssigned(result[k])
        /\ \A i \in DOMAIN df :
            (df[i].job_id = result[k].job_id
                /\ df[i].carrier_id = result[k].carrier_id)
            => /\ df[i].numeric
               /\ df[i].carrier_hours_worked * 60 + df[i].p90_time_min
                      = max_hours * 60

\* The in-pool, under-cap candidates of a job, written out from the input.
Eligible(job_id, pool) ==
    {i \in DOMAIN df :
        /\ df[i].job_id = job_id
        /\ df[i].carrier_id \in pool
        /\ df[i].numeric
        /\ df[i].carrier_hours_worked * 60 + df[i].p90_time_min
               <= max_hours * 60}

\* C4: an iteration over a job that has an in-pool, under-cap candidate
\* appends an Assigned entry for one of these candidates, and none of them
\* has a strictly smaller predicted time.
FastestEligibleChosen ==
    [][(pc = "loop" /\ assignments' # assignments
            /\ Eligible(Head(groups), available_carriers) # {}) =>
        LET e == assignments'[Len(assignments')]
            cands == Eligible(Head(groups), available_carriers)
        IN  /\ IsAssigned(e)
            /\ e.job_id = Head(groups)
            /\ \E i \in cands :
                   /\ df[i].carrier_id = e.carrier_id
                   /\ df[i].p90_time_min = e.p90_time_min
            /\ \A i \in cands : e.p90_time_min <= df[i].p90_time_min]_vars

\* A returned run in which a job went to a slower carrier because its
\* faster under-cap candidate had been assigned to the job before it.
FastestEligibleChosenWitness ==
    /\ pc = "returned"
    /\ \E k \in DOMAIN result :
        /\ k > 1
        /\ IsAssigned(result[k])
        /\ \E i \in DOMAIN df :
            /\ df[i].job_id = result[k].job_id
            /\ df[i].numeric
            /\ df[i].p90_time_min < result[k].p90_time_min
            /\ df[i].carrier_hours_worked * 60 + df[i].p90_time_min
                   <= max_hours * 60
            /\ df[i].carrier_id = result[k - 1].carrier_id

\* Keys of the groups in the order in which they first appear in the input.
FirstAppearanceOrder == FirstAppearance([i \in DOMAIN df |-> df[i].job_id])

JobIdsOf(list) == [k \in DOMAIN list |-> list[k].job_id]

Renderings(mh) == {ToString(mh) \o ".0", ToString(mh)}

\* C6 as stated: an Unassigned entry has carrier_id None and the reason
\* "No eligible carriers under <max_hours>-hour limit", the number being the
\* max_hours of the call.
ReasonNamesMaxHours ==
    \A k \in DOMAIN assignments :
        ~IsAssigned(assignments[k]) =>
            /\ assignments[k].carrier_id = None
            /\ \E number \in Renderings(max_hours) :
                   assignments[k].reason =
                       "No eligible carriers under " \o number \o "-hour limit"

\* C7: the pool starts as the set of distinct carrier_ids of the input; an
\* iteration that appends an Assigned entry removes exactly the carrier of
\* that entry, which was in the pool; every other step of the run leaves
\* the pool as it is.
PoolOnlyShrinks ==
    /\ []((pc = "loop" /\ assignments = <<>>) =>
            available_carriers = {df[i].carrier_id : i \in DOMAIN df})
    /\ [][pc = "loop" =>
            IF assignments' # assignments
                   /\ IsAssigned(assignments'[Len(assignments')])
            THEN LET e == assignments'[Len(assignments')]
                 IN  /\ e.carrier_id \in available_carriers
                     /\ available_carriers' = available_carriers \ {e.carrier_id}
            ELSE available_carriers' = available_carriers]_vars
    /\ [][pc # "start" => available_carriers' \subseteq available_carriers]_vars

\* A returned run of two jobs whose only under-cap candidate is the same
\* carrier: the first job got it, the second ended Unassigned, and the
\* other carrier of the input is still in the pool.
PoolOnlyShrinksWitness ==
    /\ pc = "returned"
    /\ Len(result) = 2
    /\ IsAssigned(result[1])
    /\ ~IsAssigned(result[2])
    /\ Eligible(result[2].job_id, Carriers) # {}
    /\ \A i \in Eligible(result[2].job_id, Carriers) :
           df[i].carrier_id = result[1].carrier_id
    /\ available_carriers # {}

\* C8: a call that raised has delivered no list, however many jobs it had
\* processed, and its caller's response carries no assignments; a call that
\* returned delivers a terminal entry for every job of the input; nothing
\* is delivered before the return.
NoPartialFailure ==
    /\ pc # "returned" => result = <<>>
    /\ pc = "raised" => ~("assignments" \in DOMAIN response)
    /\ pc = "returned" =>
           \A i \in DOMAIN df : JobState(result, df[i].job_id) # "Pending"

\* A direct call that raised on a non-numeric record after it had already
\* appended the result of an earlier job.
NoPartialFailureWitness ==
    /\ caller = "direct"
    /\ pc = "raised"
    /\ assignments # <<>>
    /\ result = <<>>

\* C9: in lambda_handler a failed read, a failed optimization or a failed
\* write ends in a 500 response holding an error and no assignments; a 200
\* response is given only after the table was read, assign_jobs returned an
\* entry for every job and the output was written, and it is then given
\* whatever number of its entries are Unassigned.
StructuredBatchErrors ==
    caller = "lambda" =>
        /\ response.statusCode \in {0, 200, 500}
        /\ response.statusCode = 500 =>
               DOMAIN response = {"statusCode", "error"}
        /\ (stage = "responded" /\ pc = "idle") =>
               response = [statusCode |-> 500,
                           error |-> "Failed loading predictions"]
        /\ (stage = "responded" /\ pc = "raised") =>
               response = [statusCode |-> 500, error |-> "Optimization failed"]
        /\ (stage = "responded" /\ pc = "returned" /\ ~output_written) =>
               response = [statusCode |-> 500,
                           error |-> "Failed writing optimized output"]
        /\ response.statusCode = 200 =>
               /\ pc = "returned"
               /\ output_written
               /\ response.assignments = result
               /\ \A i \in DOMAIN df :
                      Cardinality(EntriesOf(result, df[i].job_id)) = 1
        /\ (stage = "responded" /\ pc = "returned" /\ output_written) =>
               response.statusCode = 200

\* A 200 response whose assignments hold an Assigned and an Unassigned
\* entry.
StructuredBatchErrorsWitness ==
    /\ caller = "lambda"
    /\ response.statusCode = 200
    /\ \E i, k \in DOMAIN response.assignments :
           /\ IsAssigned(response.assignments[i])
           /\ ~IsAssigned(response.assignments[k])

\* C10 as stated: every Assigned entry, of every implementation, carries
\* job_id, carrier_id, the predicted time and carrier_hours_before, equal
\* to the four values of one input record.
AssignedEntryComplete ==
    \A k \in DOMAIN assignments :
        IsAssigned(assignments[k]) =>
            /\ {"job_id", "carrier_id", "p90_time_min", "carrier_hours_before"}
                   \subseteq DOMAIN assignments[k]
            /\ \E i \in DOMAIN df :
                   /\ df[i].job_id = assignments[k].job_id
                   /\ df[i].carrier_id = assignments[k].carrier_id
                   /\ df[i].p90_time_min = assignments[k].p90_time_min
                   /\ df[i].carrier_hours_worked =
                          assignments[k].carrier_hours_before

\* The in-pool, under-cap candidates of a job that share the minimal
\* predicted time.
Fastest(job_id, pool) ==
    {i \in Eligible(job_id, pool) :
        \A k \in Eligible(job_id, pool) :
            df[i].p90_time_min <= df[k].p90_time_min}

\* C11: the entry an iteration appends is fixed by the input and the pool,
\* ties included: with no in-pool, under-cap candidate it is the Unassigned
\* entry with the one fixed reason, otherwise it is the entry of the
\* candidate that comes first in input order among those sharing the
\* minimal predicted time; two runs on the same input therefore build the
\* same list.
FirstOccurrenceWinsTies ==
    [][(pc = "loop" /\ assignments' # assignments) =>
        LET job_id == Head(groups)
            e == assignments'[Len(assignments')]
            fastest == Fastest(job_id, available_carriers)
        IN  /\ assignments' = Append(assignments, e)
            /\ e.job_id = job_id
            /\ IF fastest = {}
               THEN /\ e.carrier_id = None
                    /\ e.reason = "No eligible carriers under 9-hour limit"
               ELSE LET first == CHOOSE i \in fastest :
                                     \A k \in fastest : i <= k
                    IN  /\ e.carrier_id = df[first].carrier_id
                        /\ e.p90_time_min = df[first].p90_time_min
                        /\ "carrier_hours_before" \in DOMAIN e =>
                               e.carrier_hours_before =
                                   df[first].carrier_hours_worked]_vars

\* A returned run in which carriers C2 and C1, in this input order, tied on
\* the minimal time of a job and C2 was selected.
FirstOccurrenceWinsTiesWitness ==
    /\ pc = "returned"
    /\ \E i, k \in DOMAIN df :
        /\ i < k
        /\ df[i].job_id = df[k].job_id
        /\ df[i].carrier_id = "C2"
        /\ df[k].carrier_id = "C1"
        /\ {i, k} \subseteq Fastest(df[i].job_id, Carriers)
        /\ \E n \in DOMAIN result :
            /\ result[n].job_id = df[i].job_id
            /\ result[n].carrier_id = "C2"
        /\ \A n \in DOMAIN result : result[n].carrier_id # "C1"

\* C12: the input CSV leaves the bucket only in the delete step, which is
\* reached only after assign_jobs returned and the output was written; a
\* 500 response leaves the input where it was; when the delete itself
\* fails the response is still 200 with the assignments and
\* deleted_input_file false.
DeleteOnlyAfterWrite ==
    /\ [](stage = "delete" => (pc = "returned" /\ output_written))
    /\ [][input_exists' # input_exists =>
            /\ stage = "delete"
            /\ pc = "returned"
            /\ output_written
            /\ ~input_exists']_vars
    /\ []((caller = "lambda" /\ response.statusCode = 500 /\ pc # "idle") =>
            input_exists)
    /\ []((stage = "responded" /\ output_written) =>
            /\ response.statusCode = 200
            /\ response.assignments = result
            /\ response.deleted_input_file = ~input_exists)

\* A 200 response after a failed delete: the output is written, the input
\* is still in the bucket and deleted_input_file is false.
DeleteOnlyAfterWriteWitness ==
    /\ stage = "responded"
    /\ response.statusCode = 200
    /\ response.deleted_input_file = FALSE
    /\ response.assignments # <<>>
    /\ input_exists
    /\ output_written

====
